---- MODULE Spec2Model ----
(***************************************************************************)
(* PooledMap<Key, Value> (src/PooledMap.hpp): an ordered map kept as a     *)
(* red-black tree whose nodes live in slots handed out by a segmented      *)
(* object pool.  Nodes are slot numbers 1, 2, ...; Nil (0) is nullptr.     *)
(* A map state is a record m with the fields of the class (root, size_),   *)
(* the slots' contents (node) and the pool's free list (free).             *)
(***************************************************************************)
EXTENDS Integers, Sequences, FiniteSets, TLC

VARIABLES
    root,      \* NodeType* root
    size_,     \* std::size_t size_
    node,      \* the slots of the pool: node[n] is the Node at slot n
    free,      \* the pool's free list, most recently recycled slot first
    erased,    \* number of erase calls that returned 1
    inserted,  \* number of operator[] calls that created a node
    upserted,  \* the keys operator[] was ever called with
    stored,    \* the abstract map: the keys upserted and not erased since,
               \* each with the value last stored for it
    last       \* the last call: its name, what it returned, its pool calls

vars == <<root, size_, node, free, erased, inserted, upserted, stored, last>>

\* ---------------------------------------------------------------- bounds
\* Spec drives the map with operator[] and erase over MaxKey keys, creating
\* at most MaxCreate nodes and erasing at most MaxErase; six keys and two
\* erases are the least that reach every branch of fix_erase (a RED sibling
\* needs a tree that had six nodes).  SpecV adds stores through operator[]
\* and records what each call returned, over MaxKeyV keys; SpecD ends these
\* calls with the destructor; SpecT fills the map with MaxKeyT increasing
\* keys and erases up to MaxEraseT of them.  MaxBatch is the largest number
\* of keys erased and then upserted in one batch.
MaxKey == 6
MaxKeyV == 4
MaxVal == 1
MaxCreate == 6
MaxCreateV == 5
MaxErase == 2
MaxEraseV == 1
MaxBatch == 2
MaxKeyT == 10
MaxEraseT == 4

Keys == 1..MaxKey
KeysV == 1..MaxKeyV
Values == 0..MaxVal
KeysT == 1..MaxKeyT

\* --------------------------------------------------------- program constants
Nil == 0
RED == "RED"
BLACK == "BLACK"
DefaultValue == 0

\* The object as one record, so that the member functions are operators on it.
Self == [root |-> root, size_ |-> size_, node |-> node, free |-> free]

SetField(m, n, f, v) == [m EXCEPT !.node[n][f] = v]

\* ------------------------------------------------------------------ pool
\* Node(k, v) with the default member initialisers.
NewNode(k, v) ==
    [key |-> k, value |-> v, left |-> Nil, right |-> Nil, parent |-> Nil, color |-> RED]

\* NodeType::create: a recycled slot if there is one (most recent first),
\* else the next unused slot of the pool; the slot is constructed anew.
create(m, k, v) ==
    IF m.free # <<>>
    THEN [m EXCEPT !.free = Tail(m.free), !.node[Head(m.free)] = NewNode(k, v)]
    ELSE [m EXCEPT !.node = Append(m.node, NewNode(k, v))]

created(m, k, v) ==
    IF m.free # <<>> THEN Head(m.free) ELSE Len(m.node) + 1

\* PooledObject::recycle: the slot goes on the free list, fields left as is.
recycle(m, n) == [m EXCEPT !.free = <<n>> \o m.free]

\* The pool's segments: segment_capacity slots each, a new one allocated
\* when a slot is needed and all slots handed out so far are in use.
segment_capacity == 2

segments(m) == (Len(m.node) + segment_capacity - 1) \div segment_capacity

\* -------------------------------------------------------------- rotations
\* Each statement of a function is a step s(a) from the map a before it to
\* the map after it; locals read once at the top keep their first value.
rotate_left(m, x) ==
    LET y == m.node[x].right
        s1(a) == SetField(a, x, "right", a.node[y].left)
        s2(a) == IF a.node[y].left # Nil
                 THEN SetField(a, a.node[y].left, "parent", x) ELSE a
        s3(a) == SetField(a, y, "parent", a.node[x].parent)
        s4(a) == IF a.node[x].parent = Nil THEN [a EXCEPT !.root = y]
                 ELSE IF x = a.node[a.node[x].parent].left
                      THEN SetField(a, a.node[x].parent, "left", y)
                      ELSE SetField(a, a.node[x].parent, "right", y)
        s5(a) == SetField(a, y, "left", x)
        s6(a) == SetField(a, x, "parent", y)
    IN  s6(s5(s4(s3(s2(s1(m))))))

rotate_right(m, x) ==
    LET y == m.node[x].left
        s1(a) == SetField(a, x, "left", a.node[y].right)
        s2(a) == IF a.node[y].right # Nil
                 THEN SetField(a, a.node[y].right, "parent", x) ELSE a
        s3(a) == SetField(a, y, "parent", a.node[x].parent)
        s4(a) == IF a.node[x].parent = Nil THEN [a EXCEPT !.root = y]
                 ELSE IF x = a.node[a.node[x].parent].right
                      THEN SetField(a, a.node[x].parent, "right", y)
                      ELSE SetField(a, a.node[x].parent, "left", y)
        s5(a) == SetField(a, y, "right", x)
        s6(a) == SetField(a, x, "parent", y)
    IN  s6(s5(s4(s3(s2(s1(m))))))

\* ------------------------------------------------------------- fix_insert
\* insert_recolor with the parent left RED.
insert_recolor_red_parent(m, z, y) ==
    LET s2(a) == SetField(a, y, "color", BLACK)
        s3(a) == SetField(a, a.node[a.node[z].parent].parent, "color", RED)
    IN  s3(s2(m))

\* Case 1 (the uncle y is RED): recolour parent, uncle and grandparent.
insert_recolor(m, z, y) ==
    LET s1(a) == SetField(a, a.node[z].parent, "color", BLACK)
        s2(a) == SetField(a, y, "color", BLACK)
        s3(a) == SetField(a, a.node[a.node[z].parent].parent, "color", RED)
    IN  s3(s2(s1(m)))

\* Cases 2 and 3 with the parent a left child: inner rotation if z is a
\* right child, then recolour and rotate the grandparent right.
\* Case 2 with the parent a left child: z moves to its parent, which is
\* rotated left, if z is a right child.
insert_inner_rotate_left(m, z) ==
    IF z = m.node[m.node[z].parent].right
    THEN [map |-> rotate_left(m, m.node[z].parent), z |-> m.node[z].parent]
    ELSE [map |-> m, z |-> z]

\* Case 3 with the parent a left child.
insert_outer_rotate_right(m, z) ==
    LET s2(a) == SetField(a, a.node[z].parent, "color", BLACK)
        s3(a) == SetField(a, a.node[a.node[z].parent].parent, "color", RED)
        s4(a) == rotate_right(a, a.node[a.node[z].parent].parent)
    IN  [map |-> s4(s3(s2(m))), z |-> z]

insert_rotate_right(m, z) ==
    LET outer(t) == insert_outer_rotate_right(t.map, t.z)
    IN  outer(insert_inner_rotate_left(m, z))

\* The mirror image, the parent being a right child.
insert_inner_rotate_right(m, z) ==
    IF z = m.node[m.node[z].parent].left
    THEN [map |-> rotate_right(m, m.node[z].parent), z |-> m.node[z].parent]
    ELSE [map |-> m, z |-> z]

insert_outer_rotate_left(m, z) ==
    LET s2(a) == SetField(a, a.node[z].parent, "color", BLACK)
        s3(a) == SetField(a, a.node[a.node[z].parent].parent, "color", RED)
        s4(a) == rotate_left(a, a.node[a.node[z].parent].parent)
    IN  [map |-> s4(s3(s2(m))), z |-> z]

insert_rotate_left(m, z) ==
    LET outer(t) == insert_outer_rotate_left(t.map, t.z)
    IN  outer(insert_inner_rotate_right(m, z))

\* One pass of fix_insert in which z stays where it is after a recolouring.
insert_step_stuck(m, z) ==
    LET g == m.node[m.node[z].parent].parent IN
    IF m.node[z].parent = m.node[g].left
    THEN LET y == m.node[g].right IN
         IF y # Nil /\ m.node[y].color = RED
         THEN [map |-> insert_recolor(m, z, y), z |-> z]
         ELSE insert_rotate_right(m, z)
    ELSE LET y == m.node[g].left IN
         IF y # Nil /\ m.node[y].color = RED
         THEN [map |-> insert_recolor(m, z, y), z |-> z]
         ELSE insert_rotate_left(m, z)

\* One pass through the body of the loop of fix_insert: the map and z after.
insert_step(m, z) ==
    LET g == m.node[m.node[z].parent].parent IN
    IF m.node[z].parent = m.node[g].left
    THEN LET y == m.node[g].right IN
         IF y # Nil /\ m.node[y].color = RED
         THEN [map |-> insert_recolor(m, z, y), z |-> g]
         ELSE insert_rotate_right(m, z)
    ELSE LET y == m.node[g].left IN
         IF y # Nil /\ m.node[y].color = RED
         THEN [map |-> insert_recolor(m, z, y), z |-> g]
         ELSE insert_rotate_left(m, z)

\* fix_insert without its last statement.
blacken_root_skipped(m) == m

\* root->color = BLACK, the last statement of fix_insert.
blacken_root(m) == SetField(m, m.root, "color", BLACK)

RECURSIVE fix_insert(_, _)
fix_insert(m, z) ==
    IF m.node[z].parent # Nil /\ m.node[m.node[z].parent].color = RED
    THEN LET again(s) == fix_insert(s.map, s.z) IN again(insert_step(m, z))
    ELSE blacken_root(m)

\* ------------------------------------------------------------ operator[]
\* operator[] without ++size_, erase without --size_.
size_inc_skipped(m) == m

size_dec_skipped(m) == m

\* ++size_ and --size_
size_inc(m) == [m EXCEPT !.size_ = m.size_ + 1]

size_dec(m) == [m EXCEPT !.size_ = m.size_ - 1]

\* descend going right for a smaller key.
RECURSIVE descend_flipped(_, _, _, _)
descend_flipped(m, key, cur, parent) ==
    IF cur = Nil THEN <<Nil, parent>>
    ELSE IF key = m.node[cur].key THEN <<cur, parent>>
    ELSE descend_flipped(m, key, IF key < m.node[cur].key THEN m.node[cur].right
                                                           ELSE m.node[cur].left, cur)

\* The descent of operator[]: <<cur, parent>> when the loop ends, cur being
\* the node with an equal key or Nil.
RECURSIVE descend(_, _, _, _)
descend(m, key, cur, parent) ==
    IF cur = Nil THEN <<Nil, parent>>
    ELSE IF key = m.node[cur].key THEN <<cur, parent>>
    ELSE descend(m, key, IF key < m.node[cur].key THEN m.node[cur].left
                                                   ELSE m.node[cur].right, cur)

\* link_node hanging the new node on the wrong side.
link_node_flipped(m, n, key, parent) ==
    LET s1(a) == [a EXCEPT !.node[n].left = Nil, !.node[n].right = Nil,
                           !.node[n].parent = parent, !.node[n].color = RED]
        s2(a) == IF a.root = Nil THEN [a EXCEPT !.root = n]
                 ELSE IF key < a.node[parent].key THEN SetField(a, parent, "right", n)
                 ELSE SetField(a, parent, "left", n)
    IN  s2(s1(m))

\* Linking the new node n under parent (or as the root).
\* The new node linked under its parent with its own parent link left as
\* create returned it.
link_node_parent_unset(m, n, key, parent) ==
    LET s1(a) == [a EXCEPT !.node[n].left = Nil, !.node[n].right = Nil,
                           !.node[n].color = RED]
        s2(a) == IF a.root = Nil THEN [a EXCEPT !.root = n]
                 ELSE IF key < a.node[parent].key THEN SetField(a, parent, "left", n)
                 ELSE SetField(a, parent, "right", n)
    IN  s2(s1(m))

link_node(m, n, key, parent) ==
    LET s1(a) == [a EXCEPT !.node[n].left = Nil, !.node[n].right = Nil,
                           !.node[n].parent = parent, !.node[n].color = RED]
        s2(a) == IF a.root = Nil THEN [a EXCEPT !.root = n]
                 ELSE IF key < a.node[parent].key THEN SetField(a, parent, "left", n)
                 ELSE SetField(a, parent, "right", n)
    IN  s2(s1(m))

\* The second half of operator[]: key was not found under parent.
insert_node(m, key, parent) ==
    LET n == created(m, key, DefaultValue) IN
    [map |-> size_inc(fix_insert(link_node(create(m, key, DefaultValue), n, key, parent), n)),
     at |-> n, calls |-> <<"create">>]

\* operator[](key): the map afterwards, the node whose value is returned and
\* the pool calls made.
subscript(m, key) ==
    LET found(d) == IF d[1] # Nil THEN [map |-> m, at |-> d[1], calls |-> <<>>]
                    ELSE insert_node(m, key, d[2])
    IN  found(descend(m, key, m.root, Nil))

\* ------------------------------------------------------------------ erase
\* locate ending on the last node visited when the key is not there.
RECURSIVE locate_nearest(_, _, _)
locate_nearest(m, key, z) ==
    IF z = Nil THEN Nil
    ELSE IF key = m.node[z].key THEN z
    ELSE LET next == IF key < m.node[z].key THEN m.node[z].left ELSE m.node[z].right
         IN  IF next = Nil THEN z ELSE locate_nearest(m, key, next)

\* The search loop of erase: the node holding key, or Nil.
RECURSIVE locate(_, _, _)
locate(m, key, z) ==
    IF z = Nil THEN Nil
    ELSE IF key = m.node[z].key THEN z
    ELSE locate(m, key, IF key < m.node[z].key THEN m.node[z].left
                                                ELSE m.node[z].right)

\* minimum without its loop.
minimum_no_descent(m, n) == n

RECURSIVE minimum(_, _)
minimum(m, n) ==
    IF m.node[n].left # Nil THEN minimum(m, m.node[n].left) ELSE n

\* transplant that leaves v's parent link as it was.
transplant_keeps_parent(m, u, v) ==
    IF m.node[u].parent = Nil THEN [m EXCEPT !.root = v]
    ELSE IF u = m.node[m.node[u].parent].left
         THEN SetField(m, m.node[u].parent, "left", v)
         ELSE SetField(m, m.node[u].parent, "right", v)

transplant(m, u, v) ==
    LET s1(a) == IF a.node[u].parent = Nil THEN [a EXCEPT !.root = v]
                 ELSE IF u = a.node[a.node[u].parent].left
                      THEN SetField(a, a.node[u].parent, "left", v)
                      ELSE SetField(a, a.node[u].parent, "right", v)
        s2(a) == IF v # Nil THEN SetField(a, v, "parent", a.node[u].parent) ELSE a
    IN  s2(s1(m))

\* The third deletion case with x_parent taken from z, as in the other two.
unlink_two_parent_of_z(m, z, y) ==
    LET x == m.node[y].right
        direct == (m.node[y].parent = z)
        s1(a) == IF direct THEN IF x # Nil THEN SetField(a, x, "parent", y) ELSE a
                 ELSE LET t1(b) == SetField(b, y, "right", b.node[z].right)
                          t2(b) == SetField(b, b.node[y].right, "parent", y)
                      IN  t2(t1(transplant(a, y, a.node[y].right)))
        s2(a) == transplant(a, z, y)
        s3(a) == SetField(a, y, "left", a.node[z].left)
        s4(a) == SetField(a, a.node[y].left, "parent", y)
        s5(a) == SetField(a, y, "color", a.node[z].color)
        both(a) == [map |-> s5(s4(s3(s2(a)))), x |-> x, x_parent |-> m.node[z].parent,
                    y_original_color |-> m.node[y].color]
    IN  both(s1(m))

\* The third deletion case done by copying: the successor's key and value
\* are copied into z and the successor's node is taken out of the tree.
unlink_two_copying(m, z, y) ==
    LET s1(a) == [a EXCEPT !.node[z].key = a.node[y].key,
                           !.node[z].value = a.node[y].value]
        s2(a) == transplant(a, y, a.node[y].right)
    IN  [map |-> s2(s1(m)), x |-> m.node[y].right, x_parent |-> m.node[y].parent,
         y_original_color |-> m.node[y].color]

\* The third deletion case: z has both children and its successor y takes
\* its place.
unlink_two(m, z, y) ==
    LET x == m.node[y].right
        direct == (m.node[y].parent = z)
        s1(a) == IF direct
                 THEN IF x # Nil THEN SetField(a, x, "parent", y) ELSE a
                 ELSE LET t1(b) == SetField(b, y, "right", b.node[z].right)
                          t2(b) == SetField(b, b.node[y].right, "parent", y)
                      IN  t2(t1(transplant(a, y, a.node[y].right)))
        s2(a) == transplant(a, z, y)
        s3(a) == SetField(a, y, "left", a.node[z].left)
        s4(a) == SetField(a, a.node[y].left, "parent", y)
        s5(a) == SetField(a, y, "color", a.node[z].color)
        xp(a) == IF direct THEN y ELSE a.node[y].parent
        both(a) == [map |-> s5(s4(s3(s2(a)))), x |-> x, x_parent |-> xp(a),
                    y_original_color |-> m.node[y].color]
    IN  both(s1(m))

\* unlink reporting RED as the colour removed when z has no left child.
unlink_left_absent_red(m, z) ==
    IF m.node[z].left = Nil
    THEN [map |-> transplant(m, z, m.node[z].right), x |-> m.node[z].right,
          x_parent |-> m.node[z].parent, y_original_color |-> RED]
    ELSE IF m.node[z].right = Nil
    THEN [map |-> transplant(m, z, m.node[z].left), x |-> m.node[z].left,
          x_parent |-> m.node[z].parent, y_original_color |-> m.node[z].color]
    ELSE unlink_two(m, z, minimum(m, m.node[z].right))

\* The three deletion cases: z is taken out of the tree.  Yields the map,
\* the replacement x with its parent, and the colour physically removed.
unlink(m, z) ==
    IF m.node[z].left = Nil
    THEN [map |-> transplant(m, z, m.node[z].right), x |-> m.node[z].right,
          x_parent |-> m.node[z].parent, y_original_color |-> m.node[z].color]
    ELSE IF m.node[z].right = Nil
    THEN [map |-> transplant(m, z, m.node[z].left), x |-> m.node[z].left,
          x_parent |-> m.node[z].parent, y_original_color |-> m.node[z].color]
    ELSE unlink_two(m, z, minimum(m, m.node[z].right))

\* IsBlack without the test for an absent node.
IsBlack_present_only(m, n) == n # Nil /\ m.node[n].color = BLACK

\* (!n || n->color == BLACK)
IsBlack(m, n) == n = Nil \/ m.node[n].color = BLACK

\* Case 1 with x the left child: a RED sibling is rotated up.
erase_red_sibling_left(m, x_parent) ==
    LET w(a) == a.node[x_parent].right
    IN  IF w(m) # Nil /\ m.node[w(m)].color = RED
        THEN rotate_left(SetField(SetField(m, w(m), "color", BLACK),
                                  x_parent, "color", RED), x_parent)
        ELSE m

\* The inner rotation before case 3 with x the left child.
erase_inner_left(m, x_parent) ==
    LET w(a) == a.node[x_parent].right
    IN  IF IsBlack(m, m.node[w(m)].right)
        THEN rotate_right(SetField(IF m.node[w(m)].left # Nil
                                   THEN SetField(m, m.node[w(m)].left, "color", BLACK)
                                   ELSE m, w(m), "color", RED), w(m))
        ELSE m

\* One pass through the loop of fix_erase with x the left child: w is
\* x_parent->right wherever the code reads it.
erase_step_left(m, x_parent) ==
    LET w(a) == a.node[x_parent].right
        s1(a) == erase_red_sibling_left(a, x_parent)
        s3(a) == erase_inner_left(a, x_parent)
        s4(a) == SetField(a, w(a), "color", a.node[x_parent].color)
        s5(a) == SetField(a, x_parent, "color", BLACK)
        s6(a) == IF a.node[w(a)].right # Nil
                 THEN SetField(a, a.node[w(a)].right, "color", BLACK) ELSE a
        s7(a) == rotate_left(a, x_parent)
        done(a) == [map |-> a, x |-> a.root, x_parent |-> x_parent]
        s2(a) == IF IsBlack(a, a.node[w(a)].left) /\ IsBlack(a, a.node[w(a)].right)
                 THEN [map |-> SetField(a, w(a), "color", RED), x |-> x_parent,
                       x_parent |-> a.node[x_parent].parent]
                 ELSE done(s7(s6(s5(s4(s3(a))))))
    IN  s2(s1(m))

\* The mirror image, x being the right child.
erase_red_sibling_right(m, x_parent) ==
    LET w(a) == a.node[x_parent].left
    IN  IF w(m) # Nil /\ m.node[w(m)].color = RED
        THEN rotate_right(SetField(SetField(m, w(m), "color", BLACK),
                                   x_parent, "color", RED), x_parent)
        ELSE m

erase_inner_right(m, x_parent) ==
    LET w(a) == a.node[x_parent].left
    IN  IF IsBlack(m, m.node[w(m)].left)
        THEN rotate_left(SetField(IF m.node[w(m)].right # Nil
                                  THEN SetField(m, m.node[w(m)].right, "color", BLACK)
                                  ELSE m, w(m), "color", RED), w(m))
        ELSE m

erase_step_right(m, x_parent) ==
    LET w(a) == a.node[x_parent].left
        s1(a) == erase_red_sibling_right(a, x_parent)
        s3(a) == erase_inner_right(a, x_parent)
        s4(a) == SetField(a, w(a), "color", a.node[x_parent].color)
        s5(a) == SetField(a, x_parent, "color", BLACK)
        s6(a) == IF a.node[w(a)].left # Nil
                 THEN SetField(a, a.node[w(a)].left, "color", BLACK) ELSE a
        s7(a) == rotate_right(a, x_parent)
        done(a) == [map |-> a, x |-> a.root, x_parent |-> x_parent]
        s2(a) == IF IsBlack(a, a.node[w(a)].right) /\ IsBlack(a, a.node[w(a)].left)
                 THEN [map |-> SetField(a, w(a), "color", RED), x |-> x_parent,
                       x_parent |-> a.node[x_parent].parent]
                 ELSE done(s7(s6(s5(s4(s3(a))))))
    IN  s2(s1(m))

RECURSIVE fix_erase(_, _, _)
fix_erase(m, x, x_parent) ==
    IF x # m.root /\ IsBlack(m, x)
    THEN LET again(s) == fix_erase(s.map, s.x, s.x_parent) IN
         IF x = m.node[x_parent].left
         THEN again(erase_step_left(m, x_parent))
         ELSE again(erase_step_right(m, x_parent))
    ELSE IF x # Nil THEN SetField(m, x, "color", BLACK) ELSE m

\* The end of erase, after z was recycled and size_ decremented: the
\* fix-up runs only when the colour taken out of the tree was BLACK.
erase_fixup(m, u) ==
    IF u.y_original_color = BLACK THEN fix_erase(m, u.x, u.x_parent) ELSE m

\* erase that does not hand the node back to the pool.
erase_node_leaking(m, z) ==
    LET rest(u) == erase_fixup(size_dec(u.map), u)
    IN  [map |-> rest(unlink(m, z)), ret |-> 1, calls |-> <<>>]

\* erase of the node z that holds the key.
erase_node(m, z) ==
    LET rest(u) == erase_fixup(size_dec(recycle(u.map, z)), u)
    IN  [map |-> rest(unlink(m, z)), ret |-> 1, calls |-> <<"recycle">>]

\* erase(key): the map afterwards, the count returned, the pool calls made.
erase(m, key) ==
    LET found(z) == IF z = Nil THEN [map |-> m, ret |-> 0, calls |-> <<>>]
                    ELSE erase_node(m, z)
    IN  found(locate(m, key, m.root))

\* ----------------------------------------------------------------- find
\* find going right for a smaller key.
RECURSIVE find_from_flipped(_, _, _)
find_from_flipped(m, key, cur) ==
    IF cur = Nil THEN DefaultValue
    ELSE IF key = m.node[cur].key THEN m.node[cur].value
    ELSE find_from_flipped(m, key, IF key < m.node[cur].key THEN m.node[cur].right
                                                             ELSE m.node[cur].left)

RECURSIVE find_from(_, _, _)
find_from(m, key, cur) ==
    IF cur = Nil THEN DefaultValue
    ELSE IF key = m.node[cur].key THEN m.node[cur].value
    ELSE find_from(m, key, IF key < m.node[cur].key THEN m.node[cur].left
                                                     ELSE m.node[cur].right)

find(m, key) == find_from(m, key, m.root)

\* contains going right for a smaller key.
RECURSIVE contains_from_flipped(_, _, _)
contains_from_flipped(m, key, cur) ==
    IF cur = Nil THEN FALSE
    ELSE IF key = m.node[cur].key THEN TRUE
    ELSE contains_from_flipped(m, key, IF key < m.node[cur].key THEN m.node[cur].right
                                                                 ELSE m.node[cur].left)

RECURSIVE contains_from(_, _, _)
contains_from(m, key, cur) ==
    IF cur = Nil THEN FALSE
    ELSE IF key = m.node[cur].key THEN TRUE
    ELSE contains_from(m, key, IF key < m.node[cur].key THEN m.node[cur].left
                                                         ELSE m.node[cur].right)

contains(m, key) == contains_from(m, key, m.root)

\* m.find(key) and m.contains(key) as calls: the object they leave, what
\* they return and the pool calls they make.
find_call(m, key) == [map |-> m, ret |-> find(m, key), calls |-> <<>>]

contains_call(m, key) == [map |-> m, ret |-> contains(m, key), calls |-> <<>>]

size(m) == m.size_

empty(m) == m.size_ = 0

\* for_each: the nodes in the order the visitor is called on them.
RECURSIVE inorder_traverse(_, _)
inorder_traverse(m, n) ==
    IF n = Nil THEN <<>>
    ELSE inorder_traverse(m, m.node[n].left) \o <<n>> \o inorder_traverse(m, m.node[n].right)

for_each(m) == inorder_traverse(m, m.root)

\* clear recycling a node before its children.
RECURSIVE clear_preorder(_, _)
clear_preorder(m, n) ==
    IF n = Nil THEN m
    ELSE LET s1(a) == recycle(a, n)
             s2(a) == clear_preorder(a, a.node[n].left)
             s3(a) == clear_preorder(a, a.node[n].right)
         IN  s3(s2(s1(m)))

\* clear that does not walk the right subtree.
RECURSIVE clear_left_only(_, _)
clear_left_only(m, n) ==
    IF n = Nil THEN m
    ELSE LET s1(a) == clear_left_only(a, a.node[n].left)
             s3(a) == recycle(a, n)
         IN  s3(s1(m))

\* clear(node): the subtree under n is recycled, children before their
\* parent; no field of the object or of a node is written.
RECURSIVE clear(_, _)
clear(m, n) ==
    IF n = Nil THEN m
    ELSE LET s1(a) == clear(a, a.node[n].left)
             s2(a) == clear(a, a.node[n].right)
             s3(a) == recycle(a, n)
         IN  s3(s2(s1(m)))

\* ~PooledMap(): the object as the destructor leaves it and the pool calls
\* it made, one recycle for each node.
destroy(m) ==
    LET done(a) == [map |-> a, ret |-> 0,
                    calls |-> [i \in 1..(Len(a.free) - Len(m.free)) |-> "recycle"]]
    IN  done(clear(m, m.root))

\* m[key] = v: operator[] and a store through the reference it returns.
assign(m, key, v) ==
    LET store(r) == [r EXCEPT !.map.node[r.at].value = v]
    IN  store(subscript(m, key))

\* ----------------------------------------------------------------- state
Init ==
    /\ root = Nil
    /\ size_ = 0
    /\ node = <<>>
    /\ free = <<>>
    /\ erased = 0
    /\ inserted = 0
    /\ upserted = {}
    /\ stored = [k \in {} |-> DefaultValue]
    /\ last = [op |-> "new", ret |-> 0, calls |-> <<>>]

Becomes(m) ==
    /\ root' = m.root
    /\ size_' = m.size_
    /\ node' = m.node
    /\ free' = m.free

\* Budgets: at most MaxCreate (MaxCreateV) nodes are ever created and
\* MaxErase (MaxEraseV) erased.
MayCreate(r) == r.calls # <<>> => inserted < MaxCreate

MayCreateV(r) == r.calls # <<>> => inserted < MaxCreateV

MayErase(r) == r.ret = 1 => erased < MaxErase

MayEraseV(r) == r.ret = 1 => erased < MaxEraseV

\* m[key], the result not looked at
Upsert(key) ==
    LET r == subscript(Self, key) IN
    /\ MayCreate(r)
    /\ Becomes(r.map)
    /\ inserted' = inserted + Len(r.calls)
    /\ UNCHANGED <<erased, upserted, stored, last>>

\* m.erase(key)
Erase(key) ==
    LET r == erase(Self, key) IN
    /\ MayErase(r)
    /\ Becomes(r.map)
    /\ erased' = erased + r.ret
    /\ UNCHANGED <<inserted, upserted, stored, last>>

Next ==
    \/ \E k \in Keys : Upsert(k)
    \/ \E k \in Keys : Erase(k)

Spec == Init /\ [][Next]_vars

\* Tall trees: MaxKeyT keys are upserted in increasing order and then any
\* of them erased, MaxEraseT at most.  Ten increasing keys and four erases
\* reach the trees in which the loops of fix_insert and fix_erase make a
\* second pass.
UpsertFresh ==
    LET r == subscript(Self, inserted + 1) IN
    /\ inserted < MaxKeyT
    /\ Becomes(r.map)
    /\ inserted' = inserted + Len(r.calls)
    /\ UNCHANGED <<erased, upserted, stored, last>>

EraseAny(key) ==
    LET r == erase(Self, key) IN
    /\ inserted = MaxKeyT
    /\ r.ret = 1
    /\ erased < MaxEraseT
    /\ Becomes(r.map)
    /\ erased' = erased + r.ret
    /\ UNCHANGED <<inserted, upserted, stored, last>>

NextT ==
    \/ UpsertFresh
    \/ \E k \in KeysT : EraseAny(k)

SpecT == Init /\ [][NextT]_vars

\* The abstract map after a store of v under key, and after key is erased.
Put(f, key, v) == [k \in DOMAIN f \cup {key} |-> IF k = key THEN v ELSE f[k]]

Drop(f, key) == [k \in DOMAIN f \ {key} |-> f[k]]

\* The object's lifetime has not ended: no call is made on a destroyed map.
Alive == last.op # "~PooledMap"

\* The same calls as their caller sees them: what was called, what it
\* returned and which pool calls it made are recorded in last.
UpsertCall(key) ==
    LET r == subscript(Self, key) IN
    /\ Alive
    /\ MayCreateV(r)
    /\ Becomes(r.map)
    /\ inserted' = inserted + Len(r.calls)
    /\ upserted' = upserted \cup {key}
    /\ stored' = Put(stored, key, r.map.node[r.at].value)
    /\ last' = [op |-> "operator[]", ret |-> r.map.node[r.at].value,
                calls |-> r.calls]
    /\ UNCHANGED erased

AssignCall(key, v) ==
    LET r == assign(Self, key, v) IN
    /\ Alive
    /\ MayCreateV(r)
    /\ Becomes(r.map)
    /\ inserted' = inserted + Len(r.calls)
    /\ upserted' = upserted \cup {key}
    /\ stored' = Put(stored, key, v)
    /\ last' = [op |-> "assign", ret |-> v, calls |-> r.calls]
    /\ UNCHANGED erased

EraseCall(key) ==
    LET r == erase(Self, key) IN
    /\ Alive
    /\ MayEraseV(r)
    /\ Becomes(r.map)
    /\ erased' = erased + r.ret
    /\ stored' = Drop(stored, key)
    /\ last' = [op |-> "erase", ret |-> r.ret, calls |-> r.calls]
    /\ UNCHANGED <<inserted, upserted>>

FindCall(key) ==
    LET r == find_call(Self, key) IN
    /\ Alive
    /\ Becomes(r.map)
    /\ inserted' = inserted + Len(r.calls)
    /\ last' = [op |-> "find", ret |-> r.ret, calls |-> r.calls]
    /\ UNCHANGED <<erased, upserted, stored>>

ContainsCall(key) ==
    LET r == contains_call(Self, key) IN
    /\ Alive
    /\ Becomes(r.map)
    /\ inserted' = inserted + Len(r.calls)
    /\ last' = [op |-> "contains", ret |-> r.ret, calls |-> r.calls]
    /\ UNCHANGED <<erased, upserted, stored>>

\* The map goes out of scope (SpecD).
Destroy ==
    LET r == destroy(Self) IN
    /\ Alive
    /\ Becomes(r.map)
    /\ last' = [op |-> "~PooledMap", ret |-> r.ret, calls |-> r.calls]
    /\ UNCHANGED <<erased, inserted, upserted, stored>>

NextV ==
    \/ \E k \in KeysV : UpsertCall(k)
    \/ \E k \in KeysV, v \in Values : AssignCall(k, v)
    \/ \E k \in KeysV : EraseCall(k)
    \/ \E k \in KeysV : FindCall(k)
    \/ \E k \in KeysV : ContainsCall(k)

SpecV == Init /\ [][NextV]_vars

\* The whole lifetime: the calls of SpecV until the map is destroyed.
NextD ==
    \/ \E k \in KeysV : UpsertCall(k)
    \/ \E k \in KeysV, v \in Values : AssignCall(k, v)
    \/ \E k \in KeysV : EraseCall(k)
    \/ \E k \in KeysV : FindCall(k)
    \/ \E k \in KeysV : ContainsCall(k)
    \/ Destroy

SpecD == Init /\ [][NextD]_vars

\* ============================================================ properties
\* What the properties read off a map.
Color(m, n) == IF n = Nil THEN BLACK ELSE m.node[n].color

KeysInOrder(m) ==
    LET visited == for_each(m) IN [i \in 1..Len(visited) |-> m.node[visited[i]].key]

RECURSIVE Subtree(_, _)
Subtree(m, n) ==
    IF n = Nil THEN {}
    ELSE {n} \cup Subtree(m, m.node[n].left) \cup Subtree(m, m.node[n].right)

Live(m) == Subtree(m, m.root)

\* Number of BLACK nodes on every path from n down to an absent child, or
\* -1 when two such paths differ.
RECURSIVE BlackHeight(_, _)
BlackHeight(m, n) ==
    IF n = Nil THEN 0
    ELSE LET l == BlackHeight(m, m.node[n].left)
             r == BlackHeight(m, m.node[n].right)
         IN  IF l = -1 \/ r = -1 \/ l # r THEN -1
             ELSE l + (IF m.node[n].color = BLACK THEN 1 ELSE 0)

HasRed(m) == \E n \in Live(m) : m.node[n].color = RED

\* C1: after any sequence of operator[] and erase calls, no RED node
\* reachable from root has a RED parent (neither the node its parent link
\* names nor the node it hangs under is RED).
C1_NoRedRed ==
    \A n \in Live(Self) :
        node[n].color = RED =>
            /\ Color(Self, node[n].parent) = BLACK
            /\ Color(Self, node[n].left) = BLACK
            /\ Color(Self, node[n].right) = BLACK

\* At least five nodes, a RED one among them with two children, after an
\* erase has run.
C1_Witness ==
    /\ erased >= 1
    /\ size_ >= 5
    /\ \E n \in Live(Self) :
          node[n].color = RED /\ node[n].left # Nil /\ node[n].right # Nil

\* C2: after any sequence of operator[] and erase calls, from every node
\* reachable from root all paths down to an absent child pass through the
\* same number of BLACK nodes.
C2_BlackHeight ==
    \A n \in Live(Self) : BlackHeight(Self, n) # -1

\* Two erases have run and left a tree of black height 2 with RED nodes.
C2_Witness ==
    /\ erased = 2
    /\ root # Nil
    /\ BlackHeight(Self, root) = 2
    /\ HasRed(Self)

\* C3: after every completed call the root is absent with size() = 0, or
\* BLACK; operator[] on an empty map makes the new node the BLACK root of a
\* map of size 1.
C3_RootBlack ==
    /\ root = Nil => size_ = 0
    /\ root # Nil => node[root].color = BLACK
    /\ root = Nil =>
          \A k \in Keys :
              LET r == subscript(Self, k) IN
              /\ r.map.root = r.at
              /\ r.map.node[r.at].key = k
              /\ r.map.node[r.at].color = BLACK
              /\ size(r.map) = 1

\* A map emptied by erase and upserted again: its one node, in the slot
\* that was recycled, is the BLACK root.
C3_Witness ==
    /\ erased = 1
    /\ inserted = 2
    /\ size_ = 1
    /\ Len(node) = 1
    /\ root = 1
    /\ node[root].color = BLACK

\* C4: in every reachable state for_each visits the keys in strictly
\* increasing order: every key in a node's left subtree is smaller than the
\* node's, every key in its right subtree larger.
C4_Ordered ==
    /\ LET ks == KeysInOrder(Self) IN
       \A i \in 1..(Len(ks) - 1) : ks[i] < ks[i + 1]
    /\ \A n \in Live(Self) :
          /\ \A l \in Subtree(Self, node[n].left) : node[l].key < node[n].key
          /\ \A g \in Subtree(Self, node[n].right) : node[g].key > node[n].key

\* At least four keys, and between two of them one that an erase took out.
C4_Witness ==
    /\ erased >= 1
    /\ Len(for_each(Self)) >= 4
    /\ \E k \in Keys : k > 1 /\ k < MaxKey /\ ~contains(Self, k)
                       /\ contains(Self, k - 1) /\ contains(Self, k + 1)

\* C7: in every reachable state size() is the number of nodes reachable
\* from root, which is the number of calls for_each makes, and empty() is
\* true exactly when that number is 0.
C7_SizeIsCount ==
    /\ size(Self) = Len(for_each(Self))
    /\ size(Self) = Cardinality(Subtree(Self, root))
    /\ empty(Self) <=> Len(for_each(Self)) = 0

\* Six nodes were created, two erased, and four are counted.
C7_Witness ==
    /\ erased = 2
    /\ inserted = 6
    /\ size_ = 4

\* The stored entries, read off the nodes rather than through find.
Has(m, k) == \E n \in Live(m) : m.node[n].key = k

ValueOf(m, k) == m.node[CHOOSE n \in Live(m) : m.node[n].key = k].value

Entries(m) ==
    LET visited == for_each(m)
    IN  [i \in 1..Len(visited) |-> <<m.node[visited[i]].key, m.node[visited[i]].value>>]

\* C5: erase(k) of a present key returns 1, takes 1 off size(), makes
\* contains(k) false, and leaves every other key present with its value
\* and in the same relative order.
C5_ErasePresent ==
    \A k \in Keys :
        Has(Self, k) =>
            LET r == erase(Self, k) IN
            /\ r.ret = 1
            /\ size(r.map) = size(Self) - 1
            /\ ~contains(r.map, k)
            /\ ~Has(r.map, k)
            /\ Entries(r.map) = SelectSeq(Entries(Self), LAMBDA e : e[1] # k)
            /\ \A j \in Keys \ {k} :
                  Has(Self, j) => contains(r.map, j) /\ find(r.map, j) = find(Self, j)

\* An erase returned 1 and left three keys, one of them with a written value.
C5_Witness ==
    /\ last.op = "erase"
    /\ last.ret = 1
    /\ size_ = 3
    /\ \E n \in Live(Self) : node[n].value # DefaultValue

\* C6: erase(k) of an absent key (also on an empty map) returns 0 and
\* changes nothing: size(), links, colours, keys, values and the pool stay
\* as they were and recycle is not called.
C6_EraseAbsent ==
    \A k \in Keys :
        ~Has(Self, k) =>
            LET r == erase(Self, k) IN
            /\ r.ret = 0
            /\ r.calls = <<>>
            /\ r.map = Self

\* An erase returned 0 on a map of at least two keys.
C6_Witness ==
    /\ last.op = "erase"
    /\ last.ret = 0
    /\ last.calls = <<>>
    /\ size_ >= 2

\* C8 as stated: size() is the number of distinct keys ever upserted minus
\* the number of erase calls that returned 1.
C8_DistinctKeysMinusErases ==
    size_ = Cardinality(upserted) - erased

\* C8 amended: size() is the number of operator[] calls that inserted a
\* node (the key was absent at the call, as it is again after its erase)
\* minus the number of erase calls that returned 1.
C8_InsertsMinusErases ==
    size_ = inserted - erased

\* A key was erased and upserted again.
C8_Witness ==
    /\ erased = 1
    /\ inserted > Cardinality(upserted)
    /\ size_ >= 2

\* C9: operator[](k) followed by find(k) yields the value held for k, which
\* is Value() if k was absent and the value stored before if it was present;
\* a value stored through the reference is what find(k) yields, and calls
\* on other keys leave it so.
C9_UpsertThenFind ==
    \A k \in Keys :
        /\ LET r == subscript(Self, k) IN
           /\ find(r.map, k) = r.map.node[r.at].value
           /\ r.map.node[r.at].value =
                 (IF Has(Self, k) THEN ValueOf(Self, k) ELSE DefaultValue)
        /\ \A v \in Values : find(assign(Self, k, v).map, k) = v
        /\ Has(Self, k) =>
              \A j \in Keys \ {k} :
                  /\ find(subscript(Self, j).map, k) = ValueOf(Self, k)
                  /\ find(erase(Self, j).map, k) = ValueOf(Self, k)
                  /\ \A v \in Values : find(assign(Self, j, v).map, k) = ValueOf(Self, k)

\* operator[] on a present key returned the value written earlier, after
\* another key had been erased.
C9_Witness ==
    /\ last.op = "operator[]"
    /\ last.calls = <<>>
    /\ last.ret # DefaultValue
    /\ erased = 1

\* C10: operator[](k) on a present key calls no create, returns the value
\* of the node that holds k, and leaves size(), links and colours as they
\* were.
C10_UpsertPresent ==
    \A k \in Keys :
        Has(Self, k) =>
            LET r == subscript(Self, k) IN
            /\ r.calls = <<>>
            /\ r.at \in Live(Self)
            /\ node[r.at].key = k
            /\ r.map = Self

\* operator[] made no pool call on a map of four keys.
C10_Witness ==
    /\ last.op = "operator[]"
    /\ last.calls = <<>>
    /\ size_ = MaxKeyV

\* C11: find(k) and contains(k) agree with the abstract map: contains(k) is
\* true exactly when k was upserted and not erased since, find(k) yields
\* the value stored for k, or Value() when k is absent; neither call makes
\* a pool call or changes size(), the tree or the pool.
C11_LookupsArePure ==
    \A k \in KeysV :
        /\ contains(Self, k) <=> k \in DOMAIN stored
        /\ find(Self, k) = (IF k \in DOMAIN stored THEN stored[k] ELSE DefaultValue)
        /\ LET r == find_call(Self, k) IN
           /\ r.map = Self
           /\ r.calls = <<>>
           /\ r.ret = find(Self, k)
        /\ LET r == contains_call(Self, k) IN
           /\ r.map = Self
           /\ r.calls = <<>>
           /\ r.ret = contains(Self, k)

\* contains returned false on a map that holds two keys, one of them with
\* a written value, after a key that had been upserted was erased.
C11_Witness ==
    /\ last.op = "contains"
    /\ last.ret = FALSE
    /\ erased = 1
    /\ size_ = 2
    /\ upserted \ DOMAIN stored # {}
    /\ \E k \in DOMAIN stored : stored[k] # DefaultValue

\* The slots on the free list, and all slots the pool has handed out.
FreeSet(m) == {m.free[i] : i \in 1..Len(m.free)}

Slots(m) == 1..Len(m.node)

NoDuplicates(q) == \A i, j \in 1..Len(q) : q[i] = q[j] => i = j

\* Contents a recycled slot may be given before the rest of erase runs: if
\* the rest of erase read the slot, its outcome would depend on them.
Poisons(m) ==
    {[key |-> 0, value |-> 0, left |-> l, right |-> l, parent |-> l, color |-> c] :
        l \in {Nil, m.root}, c \in {RED, BLACK}}

\* erase of node z with the recycled slot overwritten by p at z->recycle().
erase_poisoned(m, z, p) ==
    LET rest(u) == erase_fixup([size_dec(recycle(u.map, z)) EXCEPT !.node[z] = p], u)
    IN  rest(unlink(m, z))

RECURSIVE PostOrder(_, _)
PostOrder(m, n) ==
    IF n = Nil THEN <<>>
    ELSE PostOrder(m, m.node[n].left) \o PostOrder(m, m.node[n].right) \o <<n>>

Reverse(q) == [i \in 1..Len(q) |-> q[Len(q) + 1 - i]]

\* C13 as stated: when the destructor's clear has completed, the root is
\* absent and size() is zero.
C13_ClearResets ==
    last.op = "~PooledMap" => root = Nil /\ size_ = 0

\* C13 amended: the destructor's clear recycles every node of the tree
\* once, children before their parent, and writes nothing else: root,
\* size_ and the nodes' fields are what they were before it.
C13_ClearRecyclesOnly ==
    /\ Alive =>
          LET d == destroy(Self) IN
          /\ d.map.free = Reverse(PostOrder(Self, root)) \o free
          /\ Len(d.calls) = size_
          /\ d.map.root = root
          /\ d.map.size_ = size_
          /\ d.map.node = node
    /\ ~Alive =>
          /\ FreeSet(Self) = Slots(Self)
          /\ Len(free) = Len(node)
          /\ Len(last.calls) = size_
          /\ size_ > 0 => root \in FreeSet(Self)

\* A map of three keys was destroyed after an erase: three recycle calls
\* were made, and root still names a slot.
C13_Witness ==
    /\ last.op = "~PooledMap"
    /\ Len(last.calls) = 3
    /\ size_ = 3
    /\ root # Nil
    /\ erased = 1

\* The slot whose node holds key k.
SlotOf(m, k) == CHOOSE n \in Live(m) : m.node[n].key = k

\* The key and value of every node that is in the tree before and after.
SameContents(m, after) ==
    \A n \in Live(m) \cap Live(after) :
        /\ after.node[n].key = m.node[n].key
        /\ after.node[n].value = m.node[n].value

\* C14: the slot that holds a key is the same from the operator[] that
\* inserted it until its erase: operator[] and erase of other keys leave
\* the key in its slot, no call copies a key or value into another node,
\* and erase, also of a node with two children, recycles the erased key's
\* own node and leaves the successor in the slot it had.
C14_SlotStable ==
    \A k \in KeysV :
        Has(Self, k) =>
            /\ subscript(Self, k).at = SlotOf(Self, k)
            /\ erase(Self, k).map.free = <<SlotOf(Self, k)>> \o free
            /\ SameContents(Self, erase(Self, k).map)
            /\ Live(erase(Self, k).map) = Live(Self) \ {SlotOf(Self, k)}
            /\ \A j \in KeysV \ {k} :
                  /\ SlotOf(subscript(Self, j).map, k) = SlotOf(Self, k)
                  /\ SlotOf(erase(Self, j).map, k) = SlotOf(Self, k)
                  /\ SameContents(Self, subscript(Self, j).map)
                  /\ \A v \in Values :
                        SlotOf(assign(Self, j, v).map, k) = SlotOf(Self, k)
                        /\ ValueOf(assign(Self, j, v).map, k) = ValueOf(Self, k)

\* An erase took out a node that had two children; its successor, which
\* was not its child and holds a written value, now has both of them as
\* its children, in a map of three keys.
C14_Witness ==
    /\ last.op = "erase"
    /\ last.ret = 1
    /\ size_ = 3
    /\ node[free[1]].left # Nil
    /\ node[free[1]].right # Nil
    /\ \E y \in Live(Self) :
          /\ node[y].left = node[free[1]].left
          /\ node[y].right = node[free[1]].right
          /\ node[y].key > node[free[1]].key
          /\ node[y].value # DefaultValue

\* The keys of q erased one after the other, then operator[] called on
\* the keys of q one after the other (the slots it returned are in at).
RECURSIVE erase_all(_, _)
erase_all(m, q) ==
    IF q = <<>> THEN m ELSE erase_all(erase(m, Head(q)).map, Tail(q))

RECURSIVE upsert_all(_, _)
upsert_all(s, q) ==
    IF q = <<>> THEN s
    ELSE LET next(r) == [map |-> r.map, at |-> Append(s.at, r.at),
                         calls |-> s.calls \o r.calls]
         IN  upsert_all(next(subscript(s.map, Head(q))), Tail(q))

Batches(S, n) == {q \in [1..n -> S] : \A i, j \in 1..n : q[i] = q[j] => i = j}

\* C15: after N present keys are erased and then N absent keys upserted,
\* the pool has as many slots and segments as before: each of the N
\* creates was served from the free list, the most recently recycled slot
\* first, and the free list is what it was before the erases.
C15_PoolReuse ==
    \A n \in 1..MaxBatch :
        \A ks \in Batches({k \in KeysV : Has(Self, k)}, n) :
            LET e == erase_all(Self, ks) IN
            /\ Len(e.node) = Len(node)
            /\ e.free = Reverse([i \in 1..n |-> SlotOf(Self, ks[i])]) \o free
            /\ \A js \in Batches({k \in KeysV : ~Has(e, k)}, n) :
                  LET u == upsert_all([map |-> e, at |-> <<>>, calls |-> <<>>], js) IN
                  /\ u.calls = [i \in 1..n |-> "create"]
                  /\ u.at = [i \in 1..n |-> e.free[i]]
                  /\ u.map.free = free
                  /\ Len(u.map.node) = Len(node)
                  /\ segments(u.map) = segments(Self)

\* A key was erased from a map of four and then an absent key upserted:
\* the create was served from the free list, which is empty again, and the
\* pool still has four slots in two segments.
C15_Witness ==
    /\ last.op = "operator[]"
    /\ last.calls = <<"create">>
    /\ erased = 1
    /\ inserted = 5
    /\ free = <<>>
    /\ Len(node) = 4
    /\ segments(Self) = 2

\* The red-black invariants and the key order, of any map m.
RedBlack(m) ==
    /\ m.root # Nil => m.node[m.root].color = BLACK /\ m.node[m.root].parent = Nil
    /\ \A n \in Live(m) :
          m.node[n].color = RED =>
              Color(m, m.node[n].left) = BLACK /\ Color(m, m.node[n].right) = BLACK
    /\ BlackHeight(m, m.root) # -1
    /\ LET ks == KeysInOrder(m) IN \A i \in 1..(Len(ks) - 1) : ks[i] < ks[i + 1]

\* The node erase(k) would take out has two children and a RED successor.
RedSuccessor(m, k) ==
    LET z == locate(m, k, m.root) IN
    /\ z # Nil
    /\ m.node[z].left # Nil
    /\ m.node[z].right # Nil
    /\ m.node[minimum(m, m.node[z].right)].color = RED

\* C16: in erase, whenever the colour removed (y_original_color) is RED,
\* fix_erase is not run, and the tree as the three unlinking cases leave
\* it already satisfies the red-black invariants and the key order.
C16_RedRemovalNeedsNoFixup ==
    \A k \in Keys :
        Has(Self, k) =>
            LET z == locate(Self, k, root)
                u == unlink(Self, z)
            IN  u.y_original_color = RED =>
                    /\ RedBlack(u.map)
                    /\ z \notin Live(u.map)
                    /\ Live(u.map) = Live(Self) \ {z}
                    /\ erase(Self, k).map = size_dec(recycle(u.map, z))

\* The last of two erases took out a RED leaf, so that fix_erase was not
\* run, and among the four keys left is one whose node has two children
\* and a RED successor.
C16_Witness ==
    /\ erased = 2
    /\ size_ = 4
    /\ node[free[1]].color = RED
    /\ node[free[1]].parent # Nil
    /\ \E k \in Keys : RedSuccessor(Self, k)

\* The nodes the fix-up loops dereference are present.  One pass of
\* fix_insert dereferences the grandparent of z, and in cases 2 and 3 the
\* parent and grandparent of z after the inner rotation and the child
\* the outer rotation lifts.
InsertStepPresent(m, z) ==
    LET g == m.node[m.node[z].parent].parent
        outer_left(t) ==
            /\ t.map.node[t.z].parent # Nil
            /\ t.map.node[t.map.node[t.z].parent].parent # Nil
            /\ t.map.node[t.map.node[t.map.node[t.z].parent].parent].left # Nil
        outer_right(t) ==
            /\ t.map.node[t.z].parent # Nil
            /\ t.map.node[t.map.node[t.z].parent].parent # Nil
            /\ t.map.node[t.map.node[t.map.node[t.z].parent].parent].right # Nil
    IN  /\ g # Nil
        /\ IF m.node[z].parent = m.node[g].left
           THEN \/ (m.node[g].right # Nil /\ m.node[m.node[g].right].color = RED)
                \/ outer_left(insert_inner_rotate_left(m, z))
           ELSE \/ (m.node[g].left # Nil /\ m.node[m.node[g].left].color = RED)
                \/ outer_right(insert_inner_rotate_right(m, z))

RECURSIVE FixInsertPresent(_, _)
FixInsertPresent(m, z) ==
    IF m.node[z].parent # Nil /\ m.node[m.node[z].parent].color = RED
    THEN /\ InsertStepPresent(m, z)
         /\ LET again(s) == FixInsertPresent(s.map, s.z) IN again(insert_step(m, z))
    ELSE m.root # Nil

\* One pass of fix_erase dereferences x_parent, the sibling w (read again
\* after a RED sibling was rotated up and after the inner rotation) and the
\* child of w the inner rotation lifts.
EraseStepLeftPresent(m, x_parent) ==
    LET w(a) == a.node[x_parent].right
        inner(a) == IsBlack(a, a.node[w(a)].right) => a.node[w(a)].left # Nil
        far(a) == w(a) # Nil
        after(a) ==
            /\ w(a) # Nil
            /\ \/ IsBlack(a, a.node[w(a)].left) /\ IsBlack(a, a.node[w(a)].right)
               \/ inner(a) /\ far(erase_inner_left(a, x_parent))
    IN  after(erase_red_sibling_left(m, x_parent))

EraseStepRightPresent(m, x_parent) ==
    LET w(a) == a.node[x_parent].left
        inner(a) == IsBlack(a, a.node[w(a)].left) => a.node[w(a)].right # Nil
        far(a) == w(a) # Nil
        after(a) ==
            /\ w(a) # Nil
            /\ \/ IsBlack(a, a.node[w(a)].right) /\ IsBlack(a, a.node[w(a)].left)
               \/ inner(a) /\ far(erase_inner_right(a, x_parent))
    IN  after(erase_red_sibling_right(m, x_parent))

RECURSIVE FixErasePresent(_, _, _)
FixErasePresent(m, x, x_parent) ==
    IF x # m.root /\ IsBlack(m, x)
    THEN /\ x_parent # Nil
         /\ LET again(s) == FixErasePresent(s.map, s.x, s.x_parent) IN
            IF x = m.node[x_parent].left
            THEN EraseStepLeftPresent(m, x_parent) /\ again(erase_step_left(m, x_parent))
            ELSE EraseStepRightPresent(m, x_parent) /\ again(erase_step_right(m, x_parent))
    ELSE TRUE

\* The fix-up that operator[](k) runs on an absent key, and the one that
\* erase(k) runs on a present key when the colour removed was BLACK.
UpsertFixupPresent(m, k) ==
    LET d == descend(m, k, m.root, Nil)
        n == created(m, k, DefaultValue)
    IN  FixInsertPresent(link_node(create(m, k, DefaultValue), n, k, d[2]), n)

EraseFixupPresent(m, k) ==
    LET z == locate(m, k, m.root)
        walk(u) == u.y_original_color = BLACK =>
                       FixErasePresent(size_dec(recycle(u.map, z)), u.x, u.x_parent)
    IN  walk(unlink(m, z))

\* C17: the fix-up walks never dereference an absent node: in fix_insert
\* the grandparent of z exists whenever z's parent is RED; in fix_erase
\* x_parent is present whenever x is not the root, and the sibling w is
\* present wherever its colour or children are read, also after the
\* rotation of a RED sibling and after the inner rotation.
C17_FixupsDereferencePresentNodes ==
    \A k \in Keys :
        IF Has(Self, k) THEN EraseFixupPresent(Self, k) ELSE UpsertFixupPresent(Self, k)

\* Two BLACK nodes were erased from a map of six keys, the first of them a
\* leaf that was not the root, so that fix_erase started with x absent;
\* the four keys left include a RED node under which operator[] would
\* link an absent key, so that it would pass through the loop of fix_insert.
C17_Witness ==
    /\ erased = 2
    /\ inserted = 6
    /\ node[free[1]].color = BLACK
    /\ node[free[2]].color = BLACK
    /\ node[free[2]].left = Nil
    /\ node[free[2]].right = Nil
    /\ node[free[2]].parent # Nil
    /\ \E k \in Keys :
          /\ ~Has(Self, k)
          /\ LET p == descend(Self, k, root, Nil)[2] IN p # Nil /\ node[p].color = RED

\* The links of map m agree with each other: the root has no parent, each
\* child names the node it hangs under as its parent, no node is reached
\* twice, and every link of a reachable node is absent or names a reachable
\* node, none a slot of the free list.
LinksConsistent(m) ==
    /\ m.root # Nil => m.node[m.root].parent = Nil
    /\ m.root \notin FreeSet(m)
    /\ \A n \in Live(m) :
          /\ m.node[n].left # Nil => m.node[m.node[n].left].parent = n
          /\ m.node[n].right # Nil => m.node[m.node[n].right].parent = n
          /\ m.node[n].left # Nil => m.node[n].left # m.node[n].right
          /\ {m.node[n].left, m.node[n].right, m.node[n].parent} \subseteq Live(m) \cup {Nil}
          /\ n # m.root => m.node[n].parent # Nil
          /\ n # m.root => n \in {m.node[m.node[n].parent].left, m.node[m.node[n].parent].right}
    /\ Len(for_each(m)) = Cardinality(Live(m))
    /\ Live(m) \cap FreeSet(m) = {}

\* C18: after every completed operator[] and erase the links agree with
\* each other: the root's parent is absent, every present child of a
\* reachable node names it as parent, no node is reachable by two paths,
\* and every link is absent or names a live node; this holds for the links
\* of a node created in a reused slot, whose fields from its previous life
\* do not appear in the tree.
C18_LinksConsistent ==
    /\ LinksConsistent(Self)
    /\ \A k \in Keys :
          (~Has(Self, k) /\ free # <<>>) =>
              LET r == subscript(Self, k) IN
              /\ r.at = Head(free)
              /\ r.map.node[r.at].key = k
              /\ r.at \in Live(r.map)
              /\ LinksConsistent(r.map)
              /\ \A n \in Live(Self) :
                    {r.map.node[n].left, r.map.node[n].right, r.map.node[n].parent}
                        \subseteq Live(r.map) \cup {Nil}

\* Two nodes were erased and both slots used again: six creates filled
\* four slots, and the root has two children.
C18_Witness ==
    /\ erased = 2
    /\ inserted = 6
    /\ Len(node) = 4
    /\ free = <<>>
    /\ size_ = 4
    /\ node[root].left # Nil
    /\ node[root].right # Nil

\* The number of parent links from n up to the root.
RECURSIVE Depth(_, _)
Depth(m, n) == IF m.node[n].parent = Nil THEN 0 ELSE 1 + Depth(m, m.node[n].parent)

\* The loop conditions of fix_insert and fix_erase.
InsertLoops(m, z) == m.node[z].parent # Nil /\ m.node[m.node[z].parent].color = RED

EraseLoops(m, x) == x # m.root /\ IsBlack(m, x)

\* One pass of fix_insert makes progress: after a recolouring z is its
\* former grandparent, two links nearer the root; after the rotations the
\* loop condition is false.
InsertStepProgress(m, z) ==
    LET p == m.node[z].parent
        g == m.node[p].parent
        y == IF p = m.node[g].left THEN m.node[g].right ELSE m.node[g].left
        check(s) == IF y # Nil /\ m.node[y].color = RED
                    THEN s.z = g /\ Depth(s.map, s.z) = Depth(m, z) - 2
                    ELSE ~InsertLoops(s.map, s.z)
    IN  check(insert_step(m, z))

\* The passes fix_insert makes from z, or -1 if one of them makes no progress.
RECURSIVE FixInsertPasses(_, _)
FixInsertPasses(m, z) ==
    IF InsertLoops(m, z)
    THEN IF InsertStepProgress(m, z)
         THEN LET more(n) == IF n = -1 THEN -1 ELSE n + 1
                  again(s) == more(FixInsertPasses(s.map, s.z))
              IN  again(insert_step(m, z))
         ELSE -1
    ELSE 0

\* One pass of fix_erase makes progress: when both children of w are BLACK
\* x becomes its parent, one link nearer the root than x was when w was
\* read; otherwise x becomes the root and the loop condition is false.
EraseStepProgress(m, x, x_parent) ==
    LET left == (x = m.node[x_parent].left)
        w(a) == IF left THEN a.node[x_parent].right ELSE a.node[x_parent].left
        check(a, s) == IF IsBlack(a, a.node[w(a)].left) /\ IsBlack(a, a.node[w(a)].right)
                       THEN /\ s.x = x_parent
                            /\ s.x_parent = a.node[x_parent].parent
                            /\ Depth(s.map, s.x) = Depth(a, x_parent)
                            /\ EraseLoops(s.map, s.x) => Depth(s.map, s.x) = Depth(m, x_parent)
                       ELSE s.x = s.map.root /\ ~EraseLoops(s.map, s.x)
    IN  IF left
        THEN check(erase_red_sibling_left(m, x_parent), erase_step_left(m, x_parent))
        ELSE check(erase_red_sibling_right(m, x_parent), erase_step_right(m, x_parent))

\* The passes fix_erase makes from x, or -1 if one of them makes no progress.
RECURSIVE FixErasePasses(_, _, _)
FixErasePasses(m, x, x_parent) ==
    IF EraseLoops(m, x)
    THEN IF EraseStepProgress(m, x, x_parent)
         THEN LET more(n) == IF n = -1 THEN -1 ELSE n + 1
                  again(s) == more(FixErasePasses(s.map, s.x, s.x_parent))
              IN  IF x = m.node[x_parent].left
                  THEN again(erase_step_left(m, x_parent))
                  ELSE again(erase_step_right(m, x_parent))
         ELSE -1
    ELSE 0

\* The passes of the fix-up that operator[](k) runs on an absent key, and of
\* the one erase(k) runs on a present key (none if the colour removed was RED).
UpsertPasses(m, k) ==
    LET d == descend(m, k, m.root, Nil)
        n == created(m, k, DefaultValue)
    IN  FixInsertPasses(link_node(create(m, k, DefaultValue), n, k, d[2]), n)

ErasePasses(m, k) ==
    LET z == locate(m, k, m.root)
        walk(u) == IF u.y_original_color = BLACK
                   THEN FixErasePasses(size_dec(recycle(u.map, z)), u.x, u.x_parent)
                   ELSE 0
    IN  walk(unlink(m, z))

\* The length of the path from the root down to where the new node is
\* linked, and down to where x is when erase has taken z out.
LinkDepth(m, k) ==
    LET d == descend(m, k, m.root, Nil) IN IF d[2] = Nil THEN 0 ELSE Depth(m, d[2]) + 1

UnlinkDepth(m, k) ==
    LET at(u) == IF u.x_parent = Nil THEN 0 ELSE Depth(u.map, u.x_parent) + 1
    IN  at(unlink(m, locate(m, k, m.root)))

\* C19: every operator[] and erase call on a reachable map terminates: each
\* pass of the loop of fix_insert either recolours and moves z two links up
\* or rotates and ends the loop, each pass of the loop of fix_erase either
\* moves x one link up (both children of w BLACK) or rotates and sets x to
\* the root, so that the passes are bounded by the depth they started
\* at, and the call returns.
C19_CallsTerminate ==
    \A k \in KeysT :
        IF Has(Self, k)
        THEN /\ ErasePasses(Self, k) # -1
             /\ ErasePasses(Self, k) <= UnlinkDepth(Self, k)
             /\ erase(Self, k).ret = 1
        ELSE /\ UpsertPasses(Self, k) # -1
             /\ 2 * UpsertPasses(Self, k) <= LinkDepth(Self, k)
             /\ subscript(Self, k).calls = <<"create">>

\* After ten upserts and three erases the map holds seven keys, all in
\* BLACK nodes; erase of its smallest key makes two passes through the loop
\* of fix_erase, and operator[] on an erased key one pass of fix_insert.
C19_Witness ==
    /\ inserted = MaxKeyT
    /\ erased = 3
    /\ size_ = 7
    /\ ~HasRed(Self)
    /\ \E k \in KeysT : Has(Self, k) /\ ErasePasses(Self, k) = 2

\* The create and recycle calls made so far: operator[] makes one create
\* when it inserts, erase one recycle when it returns 1, the destructor
\* the recycles recorded for it.
Creates == inserted

Recycles == erased + (IF Alive THEN 0 ELSE Len(last.calls))

\* C20: slots are not leaked: after any sequence of operator[] and erase
\* calls the number of create calls minus the number of recycle calls is
\* size(), every slot handed out is in the tree or on the free list, and
\* after the destructor's clear(root) every slot the map created has been
\* recycled.
C20_NoSlotLeaks ==
    /\ Alive =>
          /\ Creates - Recycles = size(Self)
          /\ Len(node) - Len(free) = size(Self)
          /\ Live(Self) \cup FreeSet(Self) = Slots(Self)
          /\ \A k \in KeysV :
                /\ Len(erase(Self, k).calls) = erase(Self, k).ret
                /\ Len(erase(Self, k).calls) = size(Self) - size(erase(Self, k).map)
                /\ Len(subscript(Self, k).calls) = size(subscript(Self, k).map) - size(Self)
    /\ ~Alive =>
          /\ Creates - Recycles = 0
          /\ Len(free) = Len(node)
          /\ FreeSet(Self) = Slots(Self)
          /\ NoDuplicates(free)

\* A map that had made five creates and one recycle was destroyed: the
\* destructor made the other four recycles and all four slots are free.
C20_Witness ==
    /\ last.op = "~PooledMap"
    /\ Creates = 5
    /\ erased = 1
    /\ Len(last.calls) = 4
    /\ Len(node) = 4
    /\ Len(free) = 4

====
